---- MODULE Spec2Model ----
(***************************************************************************)
(* Model of the disko2 private presentation layer:                         *)
(*   - lib/src/private/tracing.rs : TimeFormatter::format_time and         *)
(*     TracingFormatter::format_event (the log-line layout)                *)
(*   - lib/src/private/eyre.rs    : PanicReport::display                   *)
(*                                                                         *)
(* Text is a sequence of tokens.  A token is either one visible character  *)
(* (display width 1) or one ANSI style marker ("ESC[..m", display width 0).*)
(***************************************************************************)
EXTENDS Integers, Sequences, FiniteSets, TLC

VARIABLES
    clock,       \* SystemTime::now() - UNIX_EPOCH, in milliseconds
    termCols,    \* Term::stdout().size().1, the terminal's column count
    call,        \* inputs of the last format_event call
    left,        \* format_event: the left block (tracing.rs:94)
    right,       \* format_event: the right block (tracing.rs:117)
    spaces,      \* format_event: the padding count (tracing.rs:187)
    subtracted,  \* format_event: whether term_width - width was evaluated
    pairs,       \* format_event: per span, the (key, value) pairs parsed
    wr,          \* format_event: what the call wrote to its Writer
    outcome,     \* format_event: "idle", "ok" or "panic"
    ref,         \* an earlier format_event call kept for comparison
    pcall,       \* inputs of the last PanicReport::display call
    f,           \* display: the lines written to the Formatter
    result,      \* display: "idle", "ok" or "err"
    persisted,   \* display: the reports handed to Report::persist
    fault        \* display: whether the reporter itself panicked

vars == <<clock, termCols, call, left, right, spaces, subtracted, pairs, wr,
          outcome, ref, pcall, f, result, persisted, fault>>

logVars == <<call, left, right, spaces, subtracted, pairs, wr, outcome>>
panicVars == <<pcall, f, result, persisted, fault>>

\* ------------------------------------------------------------- bounds
MaxSpans == 2
MaxCols == 32
MaxClock == 100000000

\* ------------------------------------------------------------ options
None == <<>>
Some(x) == <<x>>
is_some(o) == o # <<>>
unwrap_or(o, d) == IF o = <<>> THEN d ELSE o[1]

\* ------------------------------------------------------------- styles
\* owo_colors: each style wraps its text in an opening and a closing marker
AnsiCodes ==
    { "ESC[1m", "ESC[2m", "ESC[3m", "ESC[4m", "ESC[22m", "ESC[23m", "ESC[24m",
      "ESC[31m", "ESC[32m", "ESC[33m", "ESC[34m", "ESC[35m", "ESC[36m",
      "ESC[39m", "ESC[0m" }

Style(open, close, s) == <<open>> \o s \o <<close>>
bold(s) == Style("ESC[1m", "ESC[22m", s)
dimmed(s) == Style("ESC[2m", "ESC[22m", s)
underline(s) == Style("ESC[4m", "ESC[24m", s)
red(s) == Style("ESC[31m", "ESC[39m", s)
green(s) == Style("ESC[32m", "ESC[39m", s)
yellow(s) == Style("ESC[33m", "ESC[39m", s)
blue(s) == Style("ESC[34m", "ESC[39m", s)
purple(s) == Style("ESC[35m", "ESC[39m", s)
cyan(s) == Style("ESC[36m", "ESC[39m", s)

\* console::strip_ansi_codes
strip_ansi_codes(s) == SelectSeq(s, LAMBDA t : t \notin AnsiCodes)

\* console::measure_text_width: the width of the text without its markers
measure_text_width(s) == Len(strip_ansi_codes(s))

\* ------------------------------------------------------- text helpers
RECURSIVE repeat(_, _)
repeat(c, n) == IF n <= 0 THEN <<>> ELSE <<c>> \o repeat(c, n - 1)

RECURSIVE join(_, _)
join(parts, sep) ==
    IF Len(parts) = 0 THEN <<>>
    ELSE IF Len(parts) = 1 THEN parts[1]
    ELSE parts[1] \o sep \o join(Tail(parts), sep)

Digit(d) == <<"0", "1", "2", "3", "4", "5", "6", "7", "8", "9">>[d + 1]

RECURSIVE to_string(_)
to_string(n) == IF n < 10 THEN <<Digit(n)>> ELSE to_string(n \div 10) \o <<Digit(n % 10)>>

\* {n:0w}: decimal, zero-padded to at least w digits
pad0(n, w) == repeat("0", w - Len(to_string(n))) \o to_string(n)

HasSep(s, sep) == \E i \in 1..Len(s) : s[i] = sep
FirstSep(s, sep) == CHOOSE i \in 1..Len(s) : s[i] = sep /\ \A j \in 1..(i - 1) : s[j] # sep
LastSep(s, sep) == CHOOSE i \in 1..Len(s) : s[i] = sep /\ \A j \in (i + 1)..Len(s) : s[j] # sep

\* str::split(' ')
RECURSIVE split(_, _)
split(s, sep) ==
    IF ~HasSep(s, sep) THEN <<s>>
    ELSE <<SubSeq(s, 1, FirstSep(s, sep) - 1)>>
         \o split(SubSeq(s, FirstSep(s, sep) + 1, Len(s)), sep)

split_once_last(s, sep) ==
    IF ~HasSep(s, sep) THEN None
    ELSE Some(<<SubSeq(s, 1, LastSep(s, sep) - 1), SubSeq(s, LastSep(s, sep) + 1, Len(s))>>)

\* str::split_once('='): None without a separator, else (before, after) the first
split_once(s, sep) ==
    IF ~HasSep(s, sep) THEN None
    ELSE Some(<<SubSeq(s, 1, FirstSep(s, sep) - 1), SubSeq(s, FirstSep(s, sep) + 1, Len(s))>>)

\* u64 bitwise and
RECURSIVE BitAnd(_, _)
BitAnd(a, b) ==
    IF a = 0 \/ b = 0 THEN 0
    ELSE (a % 2) * (b % 2) + 2 * BitAnd(a \div 2, b \div 2)

\* --------------------------------------------------------- format_time
\* now: the duration since the epoch in milliseconds
format_time(now) ==
    LET as_secs == now \div 1000
        secs0 == as_secs % (60 * 60 * 24)
        hours == secs0 \div (60 * 60)
        mins == (secs0 % 3600) \div 60
        secs == BitAnd(secs0, 60)
        millis == now % 1000
    IN  dimmed(blue(<<"[">> \o pad0(hours, 2) \o <<":">> \o pad0(mins, 2) \o <<":">>
                    \o pad0(secs, 2) \o <<".">> \o pad0(millis, 3) \o <<"]">>))

\* -------------------------------------------------------------- inputs
Levels == {"TRACE", "DEBUG", "INFO", "WARN", "ERROR"}
Messages == {<<>>, <<"o", "k">>}
Files == {None, Some(<<"a">>)}
Lines == {None, Some(7)}
Target == <<"t">>

Ev(l, m, fl, ln) == [level |-> l, message |-> m, target |-> Target, file |-> fl, line |-> ln]

Events ==
    {Ev(l, <<"o", "k">>, None, None) : l \in Levels}
    \cup {Ev("INFO", m, fl, ln) : m \in Messages, fl \in Files, ln \in Lines}

\* span frames: a name and the ordered (key, value) pairs recorded on the span
Frame(n, kvs) == [name |-> n, fields |-> kvs]
BareFrame == Frame(<<"s">>, <<>>)
FieldFrame == Frame(<<"r">>, << <<<<"i">>, <<"4">>>>, <<<<"k">>, <<"a", "=", "b">>>> >>)
SpacedFrame == Frame(<<"q">>, << <<<<"m">>, <<"a", " ", "b">>>> >>)
Frames == {BareFrame, FieldFrame, SpacedFrame}

RECURSIVE SeqsUpTo(_, _)
SeqsUpTo(S, n) ==
    IF n = 0 THEN {<<>>}
    ELSE SeqsUpTo(S, n - 1) \cup {Append(q, x) : q \in {p \in SeqsUpTo(S, n - 1) : Len(p) = n - 1}, x \in S}

\* span stacks, root first
Scopes == SeqsUpTo(Frames, MaxSpans)

StackEvent == Ev("INFO", <<>>, Some(<<"a">>), Some(7))
Calls == (Events \X {<<>>}) \cup ({StackEvent} \X Scopes)

TermSizes == {0} \cup ((MaxCols - 3)..MaxCols)
ClockStarts == {59999}
ClockSteps == {45296789}

\* ------------------------------------------------------- format_event
level_label_unpadded(l) ==
    CASE l = "TRACE" -> purple(<<"T", "R", "A", "C", "E">>)
      [] l = "DEBUG" -> blue(<<"D", "E", "B", "U", "G">>)
      [] l = "INFO" -> green(<<"I", "N", "F", "O">>)
      [] l = "WARN" -> bold(yellow(<<"W", "A", "R", "N">>))
      [] l = "ERROR" -> bold(red(<<"E", "R", "R", "O", "R">>))

\* the match on *meta.level()
level_label(l) ==
    CASE l = "TRACE" -> purple(<<"T", "R", "A", "C", "E">>)
      [] l = "DEBUG" -> blue(<<"D", "E", "B", "U", "G">>)
      [] l = "INFO" -> green(<<" ", "I", "N", "F", "O">>)
      [] l = "WARN" -> bold(yellow(<<" ", "W", "A", "R", "N">>))
      [] l = "ERROR" -> bold(red(<<"E", "R", "R", "O", "R">>))

\* let left = { time, " {level} ", message }
left_block(event, now) ==
    format_time(now)
    \o <<" ">> \o dimmed(level_label(event.level)) \o <<" ">>
    \o event.message

\* the text the field formatter stored on the span (FormattedFields.fields):
\* the pairs as key=value, separated by single spaces, key and '=' styled
formatted_fields(kvs) ==
    join([i \in 1..Len(kvs) |->
            Style("ESC[3m", "ESC[0m", kvs[i][1]) \o Style("ESC[2m", "ESC[0m", <<"=">>) \o kvs[i][2]],
         <<" ">>)

\* one piece of the field text: strip, split at '=', restyle; None is the unwrap panic
field_pair(piece) ==
    LET kv == split_once(strip_ansi_codes(piece), "=")
    IN  IF ~is_some(kv) THEN [panicked |-> TRUE, text |-> <<>>, kv |-> <<>>]
        ELSE [panicked |-> FALSE,
              text |-> dimmed(cyan(kv[1][1]) \o <<":", " ">> \o bold(cyan(kv[1][2]))),
              kv |-> kv[1]]

\* the body of `for span in scope.from_root()`
span_info(span) ==
    LET name == dimmed(span.name)
        fields == formatted_fields(span.fields)
    IN  IF fields = <<>> THEN [panicked |-> FALSE, text |-> name, kvs |-> <<>>]
        ELSE LET pieces == split(fields, " ")
                 fs == [i \in 1..Len(pieces) |-> field_pair(pieces[i])]
             IN  IF \E i \in 1..Len(fs) : fs[i].panicked
                 THEN [panicked |-> TRUE, text |-> <<>>, kvs |-> <<>>]
                 ELSE [panicked |-> FALSE,
                       text |-> name \o dimmed(<<"(">>)
                                \o join([i \in 1..Len(fs) |-> fs[i].text], dimmed(<<",", " ">>))
                                \o dimmed(<<")">>),
                       kvs |-> [i \in 1..Len(fs) |-> fs[i].kv]]

location_coupled(event) ==
    IF is_some(event.file) /\ is_some(event.line)
    THEN underline(dimmed(blue(event.file[1]) \o <<":">> \o blue(to_string(event.line[1]))))
    ELSE underline(dimmed(blue(<<"<", "u", "n", "k", "n", "o", "w", "n", ">", ".", "r", "s">>)
                          \o <<":">> \o blue(<<"?", "?">>)))

\* format!("{}:{}", file or "<unknown>.rs", line or "??").dimmed().underline()
location(event) ==
    underline(dimmed(
        blue(unwrap_or(event.file, <<"<", "u", "n", "k", "n", "o", "w", "n", ">", ".", "r", "s">>))
        \o <<":">>
        \o blue(IF is_some(event.line) THEN to_string(event.line[1]) ELSE <<"?", "?">>)))

\* let right = { target, span trail, " {location} " }; scope = <<>> is event_scope() = None
right_block(event, scope) ==
    LET infos == [i \in 1..Len(scope) |-> span_info(scope[i])]
        trail == IF scope = <<>> THEN <<>>
                 ELSE dimmed(purple(<<"(">>))
                      \o join([i \in 1..Len(infos) |-> infos[i].text], dimmed(<<",", " ">>))
                      \o dimmed(purple(<<")">>))
    IN  IF \E i \in 1..Len(infos) : infos[i].panicked
        THEN [panicked |-> TRUE, buf |-> <<>>, kvs |-> <<>>]
        ELSE [panicked |-> FALSE,
              buf |-> dimmed(purple(event.target)) \o trail
                      \o <<" ">> \o location(event) \o <<" ">>,
              kvs |-> [i \in 1..Len(infos) |-> infos[i].kvs]]

term_width_cached == IF outcome = "idle" THEN termCols ELSE call.term_width

\* Term::stdout().size().1, read at every call
term_width == termCols

padding_single(width, tw) == [n |-> 1, sub |-> FALSE]

padding_le(width, tw) ==
    IF width <= tw THEN [n |-> tw - width, sub |-> TRUE] ELSE [n |-> 1, sub |-> FALSE]

\* let spaces = if width < term_width { term_width - width } else { 1 }
padding(width, tw) ==
    IF width < tw THEN [n |-> tw - width, sub |-> TRUE] ELSE [n |-> 1, sub |-> FALSE]

format_event(event, scope) ==
    \E l \in {left_block(event, clock)}, r \in {right_block(event, scope)} :
    \E sp \in {padding(measure_text_width(l) + measure_text_width(r.buf), term_width)} :
        /\ call' = [event |-> event, scope |-> scope, term_width |-> termCols, now |-> clock]
        /\ left' = l
        /\ IF r.panicked
           THEN /\ outcome' = "panic"
                /\ right' = <<>>
                /\ pairs' = <<>>
                /\ spaces' = 0
                /\ subtracted' = FALSE
                /\ wr' = <<>>
           ELSE /\ outcome' = "ok"
                /\ right' = r.buf
                /\ pairs' = r.kvs
                /\ spaces' = sp.n
                /\ subtracted' = sp.sub
                /\ wr' = l \o repeat(" ", sp.n) \o r.buf \o <<"\n">>
        /\ UNCHANGED <<clock, termCols, ref>>
        /\ UNCHANGED panicVars

\* the wall clock advances between calls
Tick(d) ==
    /\ clock + d <= MaxClock
    /\ clock' = clock + d
    /\ UNCHANGED <<termCols, ref>>
    /\ UNCHANGED logVars
    /\ UNCHANGED panicVars

\* the terminal is resized between calls
Resize(w) ==
    /\ w # termCols
    /\ termCols' = w
    /\ UNCHANGED <<clock, ref>>
    /\ UNCHANGED logVars
    /\ UNCHANGED panicVars

Init ==
    /\ clock \in ClockStarts
    /\ termCols \in TermSizes
    /\ call = [event |-> StackEvent, scope |-> <<>>, term_width |-> 0, now |-> 0]
    /\ left = <<>>
    /\ right = <<>>
    /\ spaces = 0
    /\ subtracted = FALSE
    /\ pairs = <<>>
    /\ wr = <<>>
    /\ outcome = "idle"
    /\ ref = None
    /\ pcall = None
    /\ f = <<>>
    /\ result = "idle"
    /\ persisted = <<>>
    /\ fault = FALSE

\* keep the last finished format_event call, to compare a later call with it
Remember ==
    /\ outcome # "idle"
    /\ ref' = Some([call |-> call, outcome |-> outcome, wr |-> wr])
    /\ UNCHANGED <<clock, termCols>>
    /\ UNCHANGED logVars
    /\ UNCHANGED panicVars

\* ------------------------------------------------ PanicReport::display
ISSUE_URL == "https://github.com/nix-community/disko"
CARGO_PKG_VERSION == "CARGO_PKG_VERSION"

Ok(x) == [ok |-> TRUE, val |-> x]
Err(e) == [ok |-> FALSE, val |-> e]

Payloads == {None, Some("boom")}
ThreadNames == {None, Some("main")}
Locations == {None, Some([file |-> "src/main.rs", line |-> 12, column |-> 5])}
Dumps == {Ok("/tmp/report-1.toml"), Err("Permission denied")}
PanicInfos == [payload : Payloads, location : Locations]
Threads == [name : ThreadNames, id : {1}]

is_ok_flipped(dump) == ~dump.ok

\* if let Ok(path) = dump
is_ok(dump) == dump.ok

\* the location text (eyre.rs:50)
panic_location(pi) ==
    IF is_some(pi.location)
    THEN purple(<<pi.location[1].file>>) \o <<", line ">> \o purple(to_string(pi.location[1].line))
         \o <<", column ">> \o purple(to_string(pi.location[1].column))
    ELSE <<"???">>

\* Report::new(version, version, Method::Panic, explanation, cause)
panic_report(pi) ==
    [name |-> CARGO_PKG_VERSION,
     version |-> CARGO_PKG_VERSION,
     method |-> "Panic",
     explanation |-> <<"Panic occurred in file ">> \o strip_ansi_codes(panic_location(pi)),
     cause |-> unwrap_or(pi.payload, "<not string>")]

\* the five writeln! calls before the crash dump is persisted
report_header(pi, thread) ==
    << <<"\nDisko had unrecoverable error and ">> \o bold(red(<<"crashed">>)) \o <<".", "\n">>,
       <<"Here's some info about error:", "\n">>,
       <<"    ">> \o bold(red(<<"Message">>)) \o <<":  ">>
           \o blue(<<unwrap_or(pi.payload, "<not string>")>>) \o <<"\n">>,
       <<"    ">> \o bold(red(<<"Thread">>)) \o <<":   ">>
           \o yellow(<<unwrap_or(thread.name, "<no name>")>>) \o <<" (id: ">>
           \o yellow(to_string(thread.id)) \o <<")", "\n">>,
       <<"    ">> \o bold(red(<<"Location">>)) \o <<": ">> \o panic_location(pi) \o <<"\n">> >>

\* the two writeln! calls after it; on the else branch dump.unwrap_err() is printed
report_tail(dump) ==
    IF is_ok(dump)
    THEN << <<"\nMore info saved at ">> \o blue(<<dump.val>>) \o <<".", "\n">>,
            <<"Please, submit an issue at ">> \o blue(<<ISSUE_URL>>)
                \o <<" and attach report.", "\n">> >>
    ELSE << <<"\nTried to safe crashdump but failed: ", dump.val, "\n">>,
            <<"Please, submit an issue at ">> \o blue(<<ISSUE_URL>>) \o <<".", "\n">> >>

\* failAt = 0: every write succeeds; failAt = k: the k-th writeln! returns Err
display(pi, thread, dump, failAt) ==
    \E header \in {report_header(pi, thread)}, tail \in {report_tail(dump)} :
        /\ pcall' = Some([pi |-> pi, thread |-> thread, dump |-> dump, failAt |-> failAt])
        /\ IF failAt \in 1..5
           THEN \* a header write failed: `?` returns before the report is built
                /\ f' = SubSeq(header, 1, failAt - 1)
                /\ persisted' = <<>>
                /\ result' = "err"
                /\ fault' = FALSE
           ELSE /\ persisted' = <<panic_report(pi)>>
                /\ IF ~is_ok(dump) /\ dump.ok
                   THEN \* unwrap_err() on an Ok value panics inside the reporter
                        /\ f' = header
                        /\ result' = "panic"
                        /\ fault' = TRUE
                   ELSE /\ f' = IF failAt = 0 THEN header \o tail
                                 ELSE SubSeq(header \o tail, 1, failAt - 1)
                        /\ result' = IF failAt = 0 THEN "ok" ELSE "err"
                        /\ fault' = FALSE
        /\ UNCHANGED <<clock, termCols, ref>>
        /\ UNCHANGED logVars

\* ----------------------------------------------------- specifications
Next ==
    \/ \E c \in Calls : format_event(c[1], c[2])
    \/ \E d \in ClockSteps : Tick(d)
    \/ \E w \in TermSizes : Resize(w)

Spec == Init /\ [][Next]_vars

\* two calls compared: few inputs, the clock and the terminal still moving
PureCalls ==
    { <<StackEvent, <<>>>>, <<StackEvent, <<SpacedFrame>>>>,
      <<Ev("ERROR", <<"o", "k">>, None, None), <<>>>> }
PureSizes == {0, MaxCols}

InitPure == Init /\ termCols \in PureSizes

NextPure ==
    \/ \E c \in PureCalls : format_event(c[1], c[2])
    \/ \E d \in ClockSteps : Tick(d)
    \/ \E w \in PureSizes : Resize(w)
    \/ Remember

SpecPure == InitPure /\ [][NextPure]_vars

NextPanic ==
    \E pi \in PanicInfos, thread \in Threads, dump \in Dumps, failAt \in 0..7 :
        display(pi, thread, dump, failAt)

SpecPanic == Init /\ [][NextPanic]_vars

\* ------------------------------------------------------------- claims
Range(s) == {s[i] : i \in 1..Len(s)}
StartsWith(s, p) == Len(p) <= Len(s) /\ SubSeq(s, 1, Len(p)) = p
EndsWith(s, p) == Len(p) <= Len(s) /\ SubSeq(s, Len(s) - Len(p) + 1, Len(s)) = p

RECURSIVE TrimEnd(_)
TrimEnd(s) ==
    IF Len(s) > 0 /\ s[Len(s)] = " " THEN TrimEnd(SubSeq(s, 1, Len(s) - 1)) ELSE s

Called == outcome # "idle"
Total == measure_text_width(left) + measure_text_width(right)

\* the source location as the specification words it: file:line with placeholders
LocText(event) ==
    (IF event.file = None THEN <<"<", "u", "n", "k", "n", "o", "w", "n", ">", ".", "r", "s">>
     ELSE event.file[1])
    \o <<":">>
    \o (IF event.line = None THEN <<"?", "?">> ELSE to_string(event.line[1]))

\* C1: when width(left) + width(right) < terminal_width, the line written is
\* left, then terminal_width - width(left) - width(right) spaces, then right,
\* and its visible width equals terminal_width.
C1_RightJustified ==
    (outcome = "ok" /\ Total < call.term_width) =>
        /\ wr = left \o repeat(" ", call.term_width - measure_text_width(left)
                                      - measure_text_width(right))
                \o right \o <<"\n">>
        /\ measure_text_width(SubSeq(wr, 1, Len(wr) - 1)) = call.term_width

C1_Witness ==
    outcome = "ok" /\ Total < call.term_width /\ spaces > 1 /\ call.scope # <<>>

\* C2: when terminal_width <= width(left) + width(right) (terminal_width 0
\* included), the line written is left, one space, right, untruncated; the
\* padding is 1 and term_width - width is not evaluated.
C2_SingleSpace ==
    (outcome = "ok" /\ call.term_width <= Total) =>
        /\ spaces = 1
        /\ ~subtracted
        /\ wr = left \o <<" ">> \o right \o <<"\n">>

C2_Witness == outcome = "ok" /\ call.term_width = Total

\* C3: the timestamp is [HH:MM:SS.mmm] with HH = (s mod 86400) div 3600,
\* MM = ((s mod 86400) mod 3600) div 60, SS = s mod 60, mmm = m, so that
\* HH*3600 + MM*60 + SS = s mod 86400.
C3_Timestamp ==
    Called =>
        LET s == call.now \div 1000
            m == call.now % 1000
            HH == (s % 86400) \div 3600
            MM == ((s % 86400) % 3600) \div 60
            SS == s % 60
        IN  /\ HH \in 0..23 /\ MM \in 0..59 /\ SS \in 0..59
            /\ HH * 3600 + MM * 60 + SS = s % 86400
            /\ SubSeq(strip_ansi_codes(left), 1, 14)
                 = <<"[">> \o pad0(HH, 2) \o <<":">> \o pad0(MM, 2) \o <<":">>
                   \o pad0(SS, 2) \o <<".">> \o pad0(m, 3) \o <<"]">>

\* C4: with no active spans the visible right block is exactly target, one
\* space, file:line, and the line ends with that text: nothing follows the
\* source location before the line terminator.
C4_RightBlockEndsLine ==
    (Called /\ call.scope = <<>>) =>
        /\ outcome = "ok"
        /\ strip_ansi_codes(right) = call.event.target \o <<" ">> \o LocText(call.event)
        /\ EndsWith(strip_ansi_codes(wr), LocText(call.event) \o <<"\n">>)

\* the rendering of one span as the specification words it
SpanText(frame) ==
    IF frame.fields = <<>> THEN frame.name
    ELSE frame.name \o <<"(">>
         \o join([i \in 1..Len(frame.fields) |->
                    frame.fields[i][1] \o <<":", " ">> \o frame.fields[i][2]], <<",", " ">>)
         \o <<")">>

\* C5: for every non-empty span stack the right block holds, between the target
\* and the source location, "(" + the spans root to current joined by ", " +
\* ")", a span with fields as name(k1: v1, k2: v2) with each pair recovered
\* exactly and in order, a span without fields as its bare name.
C5_SpanTrail ==
    (Called /\ call.scope # <<>>) =>
        /\ outcome = "ok"
        /\ pairs = [i \in 1..Len(call.scope) |-> call.scope[i].fields]
        /\ StartsWith(strip_ansi_codes(right),
                      call.event.target \o <<"(">>
                      \o join([i \in 1..Len(call.scope) |-> SpanText(call.scope[i])],
                              <<",", " ">>)
                      \o <<")", " ">> \o LocText(call.event))

\* the pieces format_event sees for one span: its field text split on spaces
Pieces(frame) ==
    IF frame.fields = <<>> THEN <<>>
    ELSE LET ps == split(formatted_fields(frame.fields), " ")
         IN  [j \in 1..Len(ps) |-> strip_ansi_codes(ps[j])]

\* C6: a piece of a span's field text without '=' makes format_event abort
\* with nothing written; a piece with one or more '=' is split at its first
\* '=' only, the remainder being the value.
C6_FailFast ==
    Called =>
        /\ (\E i \in 1..Len(call.scope) :
              \E j \in 1..Len(Pieces(call.scope[i])) : "=" \notin Range(Pieces(call.scope[i])[j]))
              => (outcome = "panic" /\ wr = <<>>)
        /\ outcome = "ok" =>
              /\ Len(pairs) = Len(call.scope)
              /\ \A i \in 1..Len(call.scope) :
                    /\ Len(pairs[i]) = Len(Pieces(call.scope[i]))
                    /\ \A j \in 1..Len(pairs[i]) :
                          /\ "=" \notin Range(pairs[i][j][1])
                          /\ pairs[i][j][1] \o <<"=">> \o pairs[i][j][2] = Pieces(call.scope[i])[j]

C6_Witness ==
    /\ outcome = "panic"
    /\ wr = <<>>
    /\ Len(call.scope) = 2
    /\ call.scope[1] = FieldFrame

\* C7: missing file and missing line are substituted independently
\* ("<unknown>.rs", "??"), the location always reads file:line, and a call
\* without spans never fails whichever of the two is missing.
C7_Placeholders ==
    Called =>
        /\ call.scope = <<>> => outcome = "ok"
        /\ outcome = "ok" =>
              EndsWith(TrimEnd(strip_ansi_codes(right)), <<" ">> \o LocText(call.event))

C7_Witness ==
    outcome = "ok" /\ call.event.file = None /\ call.event.line # None

\* C8: the crash dump is persisted once, after the message, thread and location
\* lines; on success the report shows the path and then the issue URL, on
\* failure "Tried to safe crashdump but failed: <error>" and then the issue URL
\* with no path; the reporter never faults.
C8_CrashDump ==
    result # "idle" =>
        /\ ~fault
        /\ result \in {"ok", "err"}
        /\ Len(persisted) <= 1
        /\ Len(persisted) = 1 =>
              /\ Len(f) >= 5
              /\ "Message" \in Range(f[3])
              /\ "Thread" \in Range(f[4])
              /\ "Location" \in Range(f[5])
        /\ Len(persisted) = 0 => Len(f) < 5
        /\ (result = "ok" /\ pcall[1].dump.ok) =>
              /\ Len(f) = 7
              /\ "\nMore info saved at " \in Range(f[6])
              /\ pcall[1].dump.val \in Range(f[6])
              /\ ISSUE_URL \in Range(f[7])
        /\ (result = "ok" /\ ~pcall[1].dump.ok) =>
              /\ Len(f) = 7
              /\ f[6] = <<"\nTried to safe crashdump but failed: ", pcall[1].dump.val, "\n">>
              /\ ISSUE_URL \in Range(f[7])
              /\ \A i \in 1..Len(f) : \A d \in Dumps : d.ok => d.val \notin Range(f[i])

C8_Witness == result = "ok" /\ ~pcall[1].dump.ok /\ Len(persisted) = 1

SameInputs(a, b) ==
    a.event = b.event /\ a.scope = b.scope /\ a.term_width = b.term_width

Tag(l) ==
    CASE l = "TRACE" -> <<"T", "R", "A", "C", "E">>
      [] l = "DEBUG" -> <<"D", "E", "B", "U", "G">>
      [] l = "INFO" -> <<" ", "I", "N", "F", "O">>
      [] l = "WARN" -> <<" ", "W", "A", "R", "N">>
      [] l = "ERROR" -> <<"E", "R", "R", "O", "R">>

\* C10: the level tag is 5 visible characters wide for each of the five levels,
\* the labels are distinct, and the tag has exactly one space on each side, so
\* the message starts at the same visible column for every level.
C10_LevelTag ==
    Called =>
        /\ \A l \in Levels : measure_text_width(level_label(l)) = 5
        /\ \A l1, l2 \in Levels :
              l1 # l2 => strip_ansi_codes(level_label(l1)) # strip_ansi_codes(level_label(l2))
        /\ SubSeq(strip_ansi_codes(left), 15, 21)
             = <<" ">> \o Tag(call.event.level) \o <<" ">>
        /\ SubSeq(strip_ansi_codes(left), 22, Len(strip_ansi_codes(left)))
             = strip_ansi_codes(call.event.message)

C10_Witness == Called /\ call.event.level = "WARN" /\ call.event.message # <<>>

====
